---- MODULE Spec2Model ----
(***************************************************************************)
(* Model of the proof-of-work miner in src/src/main.rs.                    *)
(*                                                                         *)
(* main() prints two header lines, spawns a reporter thread, fans out one  *)
(* mine_range task per pool thread inside rayon::scope (which returns only *)
(* when every task has returned), then receives one result from the mpsc   *)
(* channel, prints the result block and joins the reporter.                *)
(*                                                                         *)
(* The nonce space u64 is scaled to NonceBits bits and the flush interval  *)
(* 100_000 to BatchSize.  SHA-256 is replaced by a fixed one-byte mixing   *)
(* function of the hashed bytes; the rendering to lower-case hexadecimal   *)
(* text, the decimal formatting of the nonce and the starts_with test are  *)
(* modelled character by character.  Atomics are sequentially consistent.  *)
(***************************************************************************)
EXTENDS Integers, Sequences, FiniteSets, TLC

\* ------------------------------------------------------------------ bounds
NonceBits == 3
BatchSize == 2
MaxThreads == 2
MaxDifficulty == 1
MaxProgress == 2
MaxAttempts == 16

RECURSIVE Pow2(_)
Pow2(n) == IF n = 0 THEN 1 ELSE 2 * Pow2(n - 1)

\* u64::MAX, and the modulus of u64 arithmetic
U64Mod == Pow2(NonceBits)
U64Max == U64Mod - 1

\* the prefixes tried: "a", "f", "g", "i", "v"
Prefixes == {<<97>>, <<102>>, <<103>>, <<105>>, <<118>>}
Difficulties == 0 .. MaxDifficulty
Workers == 0 .. (MaxThreads - 1)

VARIABLES
    prefix,          \* args.prefix, as bytes
    difficulty,      \* args.difficulty
    num_threads,     \* rayon::current_num_threads()
    overflow_checks, \* build profile: TRUE panics on integer overflow, FALSE wraps
    found,           \* AtomicBool
    hash_count,      \* AtomicU64
    chan,            \* messages in the mpsc channel, oldest first
    sent,            \* every message ever put on the channel, with its sender
    received,        \* what receiver.recv() returned to main: <<>> or <<msg>>
    total_hashes,    \* the counter value main read for the result block
    out,             \* the lines printed so far, as event names
    main_pc,         \* position of main
    next_i,          \* loop variable i of the spawn loop
    rep_pc,          \* position of the reporter thread
    last_count,      \* reporter's last_count
    sleeps_after_stop, \* sleeps the reporter began while found was already true
    lines_after_stop,  \* progress lines printed while found was already true
    pc,              \* position of each mine_range task
    start,           \* argument start of each task
    end,             \* argument end of each task
    nonce,           \* local nonce of each task
    hash_hex,        \* local hash_hex of each task
    local_hash_count,\* local local_hash_count of each task
    attempts,        \* digests computed by each task so far
    after_stop       \* digests computed by each task while found was already true

vars == <<prefix, difficulty, num_threads, overflow_checks, found, hash_count,
          chan, sent, received, total_hashes, out, main_pc, next_i, rep_pc,
          last_count, sleeps_after_stop, lines_after_stop, pc, start, end, nonce, hash_hex, local_hash_count,
          attempts, after_stop>>

config == <<prefix, difficulty, num_threads, overflow_checks>>
main_vars == <<received, total_hashes, main_pc, next_i>>
rep_vars == <<rep_pc, last_count, sleeps_after_stop, lines_after_stop>>
task_vars == <<pc, start, end, nonce, hash_hex, local_hash_count, attempts, after_stop>>

\* ------------------------------------------------------- pure functions

\* format!("{}", nonce): the decimal text of a u64, as bytes
RECURSIVE Decimal(_)
Decimal(n) == IF n < 10 THEN <<48 + n>>
              ELSE Append(Decimal(n \div 10), 48 + (n % 10))

\* format!("{}{}", prefix, nonce)
Data(p, n) == p \o Decimal(n)

\* hasher.update(data); hasher.finalize_reset(): a one-byte digest
RECURSIVE Mix(_, _)
Mix(h, bytes) == IF bytes = <<>> THEN h
                 ELSE Mix(((h + Head(bytes)) * 125 + 1) % 256, Tail(bytes))

Sha256(bytes) == Mix(0, bytes)

\* one lower-case hexadecimal character
HexChar(d) == IF d < 10 THEN 48 + d ELSE 87 + d

\* hex::encode(result)
HexEncode(h) == <<HexChar(h \div 16), HexChar(h % 16)>>

TargetPrefixOneMore(d) == [k \in 1 .. (d + 1) |-> 48]

\* "0".repeat(difficulty)
TargetPrefix(d) == [k \in 1 .. d |-> 48]

\* str::starts_with
StartsWith(s, p) == /\ Len(p) <= Len(s)
                    /\ SubSeq(s, 1, Len(p)) = p

\* the hex digest of prefix followed by the decimal text of the nonce
Digest(p, n) == HexEncode(Sha256(Data(p, n)))

\* the match predicate of mine_range
Matches(p, d, n) == StartsWith(Digest(p, n), TargetPrefix(d))

\* ----------------------------------------------------------- partitioner

ChunkSizeOneMoreWorker(n) == U64Max \div (n + 1)

\* let chunk_size = u64::MAX / num_threads as u64;
ChunkSize(n) == U64Max \div n

RangeStartOffByOne(i, n) == i * ChunkSize(n) + 1

\* let start = i as u64 * chunk_size;
RangeStart(i, n) == i * ChunkSize(n)

RangeEndNoRemainder(i, n) == (i + 1) * ChunkSize(n) - 1

\* let end = if i == num_threads - 1 { u64::MAX } else { (i + 1) * chunk_size - 1 };
RangeEnd(i, n) == IF i = n - 1 THEN U64Max ELSE (i + 1) * ChunkSize(n) - 1

\* ------------------------------------------------------------------ atomics

LoadFoundNever == FALSE

\* found.load(Ordering::Relaxed)
LoadFound == found

\* hash_count.fetch_add(n, Ordering::Relaxed): wrapping u64 addition
FetchAdd(n) == (hash_count + n) % U64Mod

\* ------------------------------------------------------------------- Init
Init ==
    /\ prefix \in Prefixes
    /\ difficulty \in Difficulties
    /\ num_threads \in 1 .. MaxThreads
    /\ overflow_checks \in BOOLEAN
    /\ found = FALSE
    /\ hash_count = 0
    /\ chan = <<>>
    /\ sent = <<>>
    /\ received = <<>>
    /\ total_hashes = 0
    /\ out = <<>>
    /\ main_pc = "start"
    /\ next_i = 0
    /\ rep_pc = "idle"
    /\ last_count = 0
    /\ sleeps_after_stop = 0
    /\ lines_after_stop = 0
    /\ pc = [w \in Workers |-> "idle"]
    /\ start = [w \in Workers |-> 0]
    /\ end = [w \in Workers |-> 0]
    /\ nonce = [w \in Workers |-> 0]
    /\ hash_hex = [w \in Workers |-> <<>>]
    /\ local_hash_count = [w \in Workers |-> 0]
    /\ attempts = [w \in Workers |-> 0]
    /\ after_stop = [w \in Workers |-> 0]

\* ------------------------------------------------------------------- main

\* lines 26-62: the two header lines, the shared state, the reporter spawn
MainStart ==
    /\ main_pc = "start"
    /\ out' = out \o <<"startup", "parallelism">>
    /\ rep_pc' = "loop"
    /\ main_pc' = "scope"
    /\ UNCHANGED <<config, found, hash_count, chan, sent, received, total_hashes,
                   next_i, last_count, sleeps_after_stop, lines_after_stop,
                   task_vars>>

\* lines 66-81: one iteration of the spawn loop inside rayon::scope
MainSpawn ==
    /\ main_pc = "scope"
    /\ next_i < num_threads
    /\ start' = [start EXCEPT ![next_i] = RangeStart(next_i, num_threads) % U64Mod]
    /\ end' = [end EXCEPT ![next_i] = RangeEnd(next_i, num_threads) % U64Mod]
    /\ nonce' = [nonce EXCEPT ![next_i] = RangeStart(next_i, num_threads) % U64Mod]
    /\ pc' = [pc EXCEPT ![next_i] = "loop"]
    /\ next_i' = next_i + 1
    /\ UNCHANGED <<config, found, hash_count, chan, sent, received, total_hashes,
                   out, main_pc, rep_vars, hash_hex, local_hash_count, attempts,
                   after_stop>>

MainScopeEndNoWait ==
    /\ main_pc = "scope"
    /\ next_i = num_threads
    /\ main_pc' = IF \E w \in 0 .. (num_threads - 1) : pc[w] = "panicked"
                  THEN "panicked" ELSE "recv"
    /\ UNCHANGED <<config, found, hash_count, chan, sent, received, total_hashes,
                   out, next_i, rep_vars, task_vars>>

\* line 82: rayon::scope returns when every task has returned; a panic of a
\* task is resumed in the caller
MainScopeEnd ==
    /\ main_pc = "scope"
    /\ next_i = num_threads
    /\ \A w \in 0 .. (num_threads - 1) : pc[w] \in {"done", "panicked"}
    /\ main_pc' = IF \E w \in 0 .. (num_threads - 1) : pc[w] = "panicked"
                  THEN "panicked" ELSE "recv"
    /\ UNCHANGED <<config, found, hash_count, chan, sent, received, total_hashes,
                   out, next_i, rep_vars, task_vars>>

\* lines 85-97: receiver.recv() blocks while the channel is empty (main keeps
\* its own sender alive), then the result block is printed
MainRecv ==
    /\ main_pc = "recv"
    /\ chan # <<>>
    /\ received' = <<Head(chan)>>
    /\ chan' = Tail(chan)
    /\ total_hashes' = hash_count
    /\ out' = Append(out, "result")
    /\ main_pc' = "join"
    /\ UNCHANGED <<config, found, hash_count, sent, next_i, rep_vars, task_vars>>

\* line 100: report_handle.join()
MainJoin ==
    /\ main_pc = "join"
    /\ rep_pc = "done"
    /\ main_pc' = "done"
    /\ UNCHANGED <<config, found, hash_count, chan, sent, received, total_hashes,
                   out, next_i, rep_vars, task_vars>>

\* --------------------------------------------------------------- reporter

\* the process is alive until main returns or panics
ProcessAlive == main_pc \notin {"done", "panicked"}

CountLines(s, line) == Cardinality({k \in 1 .. Len(s) : s[k] = line})

ReportFoundLoadNever == FALSE

\* report_found.load(Ordering::Relaxed)
ReportFoundLoad == found

\* line 49: while !report_found.load(Ordering::Relaxed)
ReporterCheck ==
    /\ rep_pc = "loop"
    /\ ProcessAlive
    /\ IF ReportFoundLoad
       THEN rep_pc' = "done"
       ELSE /\ CountLines(out, "progress") < MaxProgress
            /\ rep_pc' = "sleep"
    /\ UNCHANGED <<config, found, hash_count, chan, sent, out, last_count,
                   sleeps_after_stop, lines_after_stop, main_vars, task_vars>>

\* line 50: thread::sleep(Duration::from_secs(1)) begins
ReporterSleep ==
    /\ rep_pc = "sleep"
    /\ ProcessAlive
    /\ sleeps_after_stop' = IF found THEN sleeps_after_stop + 1
                            ELSE sleeps_after_stop
    /\ rep_pc' = "sample"
    /\ UNCHANGED <<config, found, hash_count, chan, sent, out, last_count,
                   lines_after_stop, main_vars, task_vars>>

\* lines 51-60: the sleep is over; sample the counter, print the progress line
ReporterSample ==
    /\ rep_pc = "sample"
    /\ ProcessAlive
    /\ out' = Append(out, "progress")
    /\ last_count' = hash_count
    /\ lines_after_stop' = IF found THEN lines_after_stop + 1
                           ELSE lines_after_stop
    /\ rep_pc' = "loop"
    /\ UNCHANGED <<config, found, hash_count, chan, sent, sleeps_after_stop,
                   main_vars, task_vars>>

\* ------------------------------------------------------------- mine_range

\* line 118: while nonce <= end && !found.load(Ordering::Relaxed)
WorkerLoop(w) ==
    /\ pc[w] = "loop"
    /\ pc' = [pc EXCEPT ![w] = IF nonce[w] <= end[w] /\ ~LoadFound
                               THEN "hash" ELSE "final"]
    /\ UNCHANGED <<config, found, hash_count, chan, sent, out, main_vars,
                   rep_vars, start, end, nonce, hash_hex, local_hash_count,
                   attempts, after_stop>>

\* nonce += 1 at u64::MAX panics with overflow checks and wraps without
Overflows(n) == n + 1 > U64Max

NextNonceSkip(n) == (n + 3) % U64Mod

\* line 137: nonce += 1, in u64
NextNonce(n) == (n + 1) % U64Mod

\* lines 119-141: one digest, the match test, and on a miss the increments
WorkerHash(w) ==
    /\ pc[w] = "hash"
    /\ attempts[w] < MaxAttempts
    /\ hash_hex' = [hash_hex EXCEPT ![w] = Digest(prefix, nonce[w])]
    /\ attempts' = [attempts EXCEPT ![w] = @ + 1]
    /\ after_stop' = [after_stop EXCEPT ![w] =
                         IF found /\ @ <= BatchSize THEN @ + 1 ELSE @]
    /\ IF StartsWith(hash_hex'[w], TargetPrefix(difficulty))
       THEN /\ pc' = [pc EXCEPT ![w] = "store"]
            /\ UNCHANGED <<nonce, local_hash_count>>
       ELSE IF Overflows(nonce[w]) /\ overflow_checks
       THEN /\ pc' = [pc EXCEPT ![w] = "panicked"]
            /\ UNCHANGED <<nonce, local_hash_count>>
       ELSE /\ nonce' = [nonce EXCEPT ![w] = NextNonce(@)]
            /\ local_hash_count' = [local_hash_count EXCEPT ![w] = @ + 1]
            /\ pc' = [pc EXCEPT ![w] =
                         IF local_hash_count'[w] % BatchSize = 0
                         THEN "flush" ELSE "loop"]
    /\ UNCHANGED <<config, found, hash_count, chan, sent, out, main_vars,
                   rep_vars, start, end>>

StoredFlagToggled == ~found

\* the value written by found.store(true, Ordering::Relaxed)
StoredFlag == TRUE

\* line 132: found.store(true, Ordering::Relaxed)
WorkerStore(w) ==
    /\ pc[w] = "store"
    /\ found' = StoredFlag
    /\ pc' = [pc EXCEPT ![w] = "send"]
    /\ UNCHANGED <<config, hash_count, chan, sent, out, main_vars, rep_vars,
                   start, end, nonce, hash_hex, local_hash_count, attempts,
                   after_stop>>

MessageNextNonce(w) == [nonce |-> (nonce[w] + 1) % U64Mod, hash_hex |-> hash_hex[w]]

\* the tuple handed to sender.send
Message(w) == [nonce |-> nonce[w], hash_hex |-> hash_hex[w]]

ChannelPushFront(c, m) == <<m>> \o c

\* mpsc send: the channel is first-in first-out
ChannelPush(c, m) == Append(c, m)

WorkerSendRendezvous(w) ==
    /\ pc[w] = "send"
    /\ chan = <<>>
    /\ chan' = ChannelPush(chan, Message(w))
    /\ sent' = Append(sent, [from |-> w, msg |-> Message(w)])
    /\ pc' = [pc EXCEPT ![w] = "final"]
    /\ UNCHANGED <<config, found, hash_count, out, main_vars, rep_vars,
                   start, end, nonce, hash_hex, local_hash_count, attempts,
                   after_stop>>

\* lines 133-134: let _ = sender.send((nonce, hash_hex)); break
WorkerSend(w) ==
    /\ pc[w] = "send"
    /\ chan' = ChannelPush(chan, Message(w))
    /\ sent' = Append(sent, [from |-> w, msg |-> Message(w)])
    /\ pc' = [pc EXCEPT ![w] = "final"]
    /\ UNCHANGED <<config, found, hash_count, out, main_vars, rep_vars,
                   start, end, nonce, hash_hex, local_hash_count, attempts,
                   after_stop>>

\* lines 142-143: flush a full batch and reset the local counter
WorkerFlush(w) ==
    /\ pc[w] = "flush"
    /\ hash_count' = FetchAdd(local_hash_count[w])
    /\ local_hash_count' = [local_hash_count EXCEPT ![w] = 0]
    /\ pc' = [pc EXCEPT ![w] = "recheck"]
    /\ UNCHANGED <<config, found, chan, sent, out, main_vars, rep_vars,
                   start, end, nonce, hash_hex, attempts, after_stop>>

\* lines 145-147: if found.load(Ordering::Relaxed) { break }
WorkerRecheck(w) ==
    /\ pc[w] = "recheck"
    /\ pc' = [pc EXCEPT ![w] = IF LoadFound THEN "final" ELSE "loop"]
    /\ UNCHANGED <<config, found, hash_count, chan, sent, out, main_vars,
                   rep_vars, start, end, nonce, hash_hex, local_hash_count,
                   attempts, after_stop>>

\* lines 152-154: flush what is left, then return
WorkerFinal(w) ==
    /\ pc[w] = "final"
    /\ hash_count' = IF local_hash_count[w] > 0
                     THEN FetchAdd(local_hash_count[w]) ELSE hash_count
    /\ pc' = [pc EXCEPT ![w] = "done"]
    /\ UNCHANGED <<config, found, chan, sent, out, main_vars, rep_vars,
                   start, end, nonce, hash_hex, local_hash_count, attempts,
                   after_stop>>

Worker(w) ==
    \/ WorkerLoop(w)
    \/ WorkerHash(w)
    \/ WorkerStore(w)
    \/ WorkerSend(w)
    \/ WorkerFlush(w)
    \/ WorkerRecheck(w)
    \/ WorkerFinal(w)

Main == MainStart \/ MainSpawn \/ MainScopeEnd \/ MainRecv \/ MainJoin

Reporter == ReporterCheck \/ ReporterSleep \/ ReporterSample

Next ==
    \/ MainStart
    \/ MainSpawn
    \/ MainScopeEnd
    \/ MainRecv
    \/ MainJoin
    \/ ReporterCheck
    \/ ReporterSleep
    \/ ReporterSample
    \/ \E w \in Workers : WorkerLoop(w)
    \/ \E w \in Workers : WorkerHash(w)
    \/ \E w \in Workers : WorkerStore(w)
    \/ \E w \in Workers : WorkerSend(w)
    \/ \E w \in Workers : WorkerFlush(w)
    \/ \E w \in Workers : WorkerRecheck(w)
    \/ \E w \in Workers : WorkerFinal(w)

Spec == Init /\ [][Next]_vars

\* every thread that can take a step eventually takes one
FairSpec ==
    /\ Spec
    /\ WF_vars(Main)
    /\ WF_vars(Reporter)
    /\ \A w \in Workers : WF_vars(Worker(w))

TypeOK ==
    /\ found \in BOOLEAN
    /\ hash_count \in 0 .. U64Max
    /\ \A w \in Workers : nonce[w] \in 0 .. U64Max
    /\ \A w \in Workers : local_hash_count[w] \in 0 .. BatchSize
    /\ Len(received) <= 1

\* ---------------------------------------------------------------- helpers

Spawned == 0 .. (next_i - 1)
AllSpawned == next_i = num_threads
AllExited == AllSpawned /\ \A w \in Spawned : pc[w] \in {"done", "panicked"}
Range(w) == start[w] .. end[w]
MatchExists == \E m \in 0 .. U64Max : Matches(prefix, difficulty, m)

RECURSIVE SumUpTo(_, _)
SumUpTo(f, k) == IF k < 0 THEN 0 ELSE f[k] + SumUpTo(f, k - 1)
TotalAttempts == SumUpTo(attempts, MaxThreads - 1)

SentBy(w) == {k \in 1 .. Len(sent) : sent[k].from = w}

\* mine_range(prefix, difficulty, 0, u64::MAX, ..) run alone: the scan from n
RECURSIVE ScanFrom(_)
ScanFrom(n) == IF Matches(prefix, difficulty, n)
               THEN <<[nonce |-> n, hash_hex |-> Digest(prefix, n)]>>
               ELSE IF n = U64Max THEN <<>> ELSE ScanFrom(n + 1)
SingleWorkerResult == ScanFrom(0)

\* ------------------------------------------------------------------ claims

\* C1: every result the coordinator receives pairs a nonce with the hex digest
\* of prefix followed by the decimal text of that same nonce, and the digest
\* starts with at least `difficulty` characters '0'.
C1_ResultMatchesItsNonce ==
    \A k \in 1 .. Len(received) :
        /\ received[k].hash_hex = Digest(prefix, received[k].nonce)
        /\ StartsWith(received[k].hash_hex, [j \in 1 .. difficulty |-> 48])

C1_Witness ==
    /\ received # <<>>
    /\ num_threads > 1
    /\ difficulty > 0
    /\ Len(sent) > 1

\* C2: the ranges handed to the tasks are pairwise disjoint, adjacent in
\* order (each start is the previous end + 1), begin at 0, end at u64::MAX,
\* and no bound computation leaves u64.
C2_PartitionExact ==
    /\ \A i \in 0 .. (num_threads - 1) :
          /\ RangeStart(i, num_threads) \in 0 .. U64Max
          /\ (i + 1) * ChunkSize(num_threads) \in 1 .. U64Max
          /\ RangeEnd(i, num_threads) \in 0 .. U64Max
    /\ \A w \in Spawned :
          /\ start[w] <= end[w]
          /\ IF w = 0 THEN start[w] = 0 ELSE start[w] = end[w - 1] + 1
    /\ \A v, w \in Spawned : v # w => Range(v) \cap Range(w) = {}
    /\ AllSpawned =>
          /\ end[num_threads - 1] = U64Max
          /\ UNION {Range(w) : w \in Spawned} = 0 .. U64Max

C2_Witness ==
    /\ AllSpawned
    /\ num_threads = MaxThreads
    /\ start[num_threads - 1] > 0

\* C3 (as stated): the nonce the coordinator receives is the smallest nonce
\* of [0, u64::MAX] that satisfies the match predicate.
C3_Original ==
    \A k \in 1 .. Len(received) :
        \A m \in 0 .. U64Max :
            Matches(prefix, difficulty, m) => received[k].nonce <= m

\* C3 (amended): the nonce the coordinator receives is the smallest
\* satisfying nonce of the partition range that contains it.
C3_SmallestInItsRange ==
    \A k \in 1 .. Len(received) :
        \A w \in Spawned :
            received[k].nonce \in Range(w) =>
                \A m \in start[w] .. (received[k].nonce - 1) :
                    ~Matches(prefix, difficulty, m)

C3_Witness ==
    /\ received # <<>>
    /\ difficulty > 0
    /\ \E m \in 0 .. U64Max :
          Matches(prefix, difficulty, m) /\ m < received[1].nonce
    /\ \E w \in Spawned : received[1].nonce \in Range(w) /\ received[1].nonce > start[w]

\* C4 (as stated): whatever the worker count and the interleaving, the result
\* delivered is the one the single-worker run delivers.
C4_Original ==
    received # <<>> => received = SingleWorkerResult

\* C4 (amended): a run with one worker delivers the first satisfying nonce of
\* the scan of [0, u64::MAX] and its digest, a function of (prefix,
\* difficulty) alone.
C4_SingleWorkerDeterministic ==
    (num_threads = 1 /\ received # <<>>) => received = SingleWorkerResult

C4_Witness ==
    /\ num_threads = 1
    /\ received # <<>>
    /\ difficulty > 0
    /\ received[1].nonce > 0

\* C5 (as stated): at most one worker ever sends a result.
C5_Original == Len(sent) <= 1

\* C5 (amended): each worker sends at most one result and only for a nonce it
\* found satisfying; the flag is set only by a worker that then sends; the
\* coordinator consumes at most one result, the first placed on the channel,
\* and later ones stay on the channel.
C5_AtMostOnePerWorker ==
    /\ \A w \in Workers : Cardinality(SentBy(w)) <= 1
    /\ \A k \in 1 .. Len(sent) :
          Matches(prefix, difficulty, sent[k].msg.nonce)
    /\ found => (sent # <<>> \/ \E w \in Spawned : pc[w] = "send")
    /\ Len(received) <= 1
    /\ received \o chan = [k \in 1 .. Len(sent) |-> sent[k].msg]

C5_Witness ==
    /\ Len(sent) = 2
    /\ received # <<>>
    /\ sent[1].msg # sent[2].msg

\* C6: once the stop flag is true, no worker computes more than one batch
\* (BatchSize) of further digests before it leaves its scan loop.
C6_StopsWithinOneBatch ==
    \A w \in Workers : after_stop[w] <= BatchSize

C6_Witness ==
    \E w \in Spawned :
        /\ after_stop[w] = 1
        /\ pc[w] = "done"
        /\ hash_hex[w] # <<>>
        /\ ~StartsWith(hash_hex[w], TargetPrefix(difficulty))

\* C7: under fair scheduling, if some nonce satisfies the predicate then
\* eventually every worker has exited, the coordinator has received a result
\* and printed the result block, the reporter has exited and been joined, and
\* main has returned.
C7_Original ==
    MatchExists =>
        <>(/\ main_pc = "done"
           /\ rep_pc = "done"
           /\ received # <<>>
           /\ \A w \in 0 .. (num_threads - 1) : pc[w] = "done")

\* C8: the output is the startup line, the parallelism line, progress lines,
\* then the result block; no progress line follows the result block.
C8_Original ==
    /\ Len(out) >= 1 => out[1] = "startup"
    /\ Len(out) >= 2 => out[2] = "parallelism"
    /\ \A j, k \in 1 .. Len(out) :
          (j < k /\ out[j] = "result") => out[k] # "progress"

\* C9: when every worker has exited its scan loop the shared counter equals
\* the number of digests computed by all workers together, the matching
\* attempt included.
C9_Original ==
    (AllExited /\ \A w \in Spawned : pc[w] = "done")
        => hash_count = TotalAttempts % U64Mod

\* C10: with difficulty 0 every worker computes at most one digest, the
\* delivered nonce is the start of some worker's range, and the number of
\* digests computed in total is at most the number of workers.
C10_DifficultyZero ==
    difficulty = 0 =>
        /\ \A w \in Workers : attempts[w] <= 1
        /\ \A k \in 1 .. Len(received) :
              \E w \in Spawned : received[k].nonce = start[w]
        /\ \A k \in 1 .. Len(sent) : sent[k].msg.nonce = start[sent[k].from]
        /\ TotalAttempts <= num_threads
        /\ \A w \in Workers : pc[w] \notin {"flush", "recheck", "panicked"}

C10_Witness ==
    /\ difficulty = 0
    /\ main_pc = "done"
    /\ num_threads = MaxThreads
    /\ TotalAttempts = num_threads

\* the last digest a task computed satisfied the predicate (after a match a
\* task computes no further digest)
Matched(w) ==
    /\ hash_hex[w] # <<>>
    /\ StartsWith(hash_hex[w], TargetPrefix(difficulty))

\* C11: the shared hash counter never decreases, in any step of any thread
\* (no decrement, no wrap-around).
C11_Original == [][hash_count' >= hash_count]_vars

\* C12: the stop flag starts false, only ever changes from false to true, and
\* is true only if some worker has computed a digest that satisfies the
\* predicate; the reporter and the coordinator never write it.
C12_FlagMonotonic ==
    /\ found = FALSE
    /\ [][/\ found => found'
          /\ found' => \E w \in Workers :
                          /\ Matched(w)'
                          /\ pc'[w] \in {"send", "final", "done"}
          /\ found' # found => ~(Main \/ Reporter)]_vars

C12_Witness ==
    /\ found
    /\ Len(sent) = 2
    /\ rep_pc = "done"

\* C13: the worker whose range ends at u64::MAX never increments its nonce
\* past u64::MAX: the nonce never wraps to 0 and the task never fails on the
\* increment; after a miss at u64::MAX it leaves the loop, range exhausted.
C13_Original ==
    [][\A w \in Workers :
          /\ nonce'[w] >= nonce[w]
          /\ pc'[w] # "panicked"
          /\ (attempts'[w] # attempts[w] /\ nonce[w] = U64Max /\ ~Matched(w)')
                => (nonce'[w] = U64Max /\ pc'[w] = "final")]_vars

\* C14: if no nonce satisfies the predicate, the coordinator never receives a
\* result and never completes: no error, no result block, no termination, and
\* the reporter never exits because the flag stays false.
C14_Original ==
    ~MatchExists =>
        /\ main_pc \notin {"done", "panicked"}
        /\ received = <<>>
        /\ CountLines(out, "result") = 0
        /\ rep_pc # "done"
        /\ ~found

\* C15: the coordinator receives the result and reads the shared counter only
\* after every worker has left its scan loop and done its final flush, so the
\* total it reports is the final value of the counter.
C15_ReadAfterAllFlushed ==
    /\ main_pc \in {"recv", "join", "done"} =>
          \A w \in 0 .. (num_threads - 1) : pc[w] = "done"
    /\ received # <<>> => total_hashes = hash_count

C15_Witness ==
    /\ received # <<>>
    /\ num_threads = MaxThreads
    /\ total_hashes > 0
    /\ \A w \in Spawned : attempts[w] > 0

\* C16: each worker evaluates only nonces of its own range, starting at
\* start and going up by one: its k-th digest is for start + k - 1, so no
\* nonce is evaluated outside the range, skipped or repeated.
C16_Original ==
    \A w \in Spawned :
        pc[w] = "hash" =>
            /\ nonce[w] \in Range(w)
            /\ nonce[w] = start[w] + attempts[w]

RangeSize(w) == end[w] - start[w] + 1

\* C17 (as stated): the sizes of any two ranges differ by at most 1.
C17_Original ==
    \A v, w \in Spawned : RangeSize(v) - RangeSize(w) <= 1

\* C17 (amended): every range but the last holds u64::MAX / num_threads
\* nonces and the last holds that many plus (u64::MAX mod num_threads) + 1,
\* so two sizes differ by at most num_threads.
C17_LastAbsorbsRemainder ==
    /\ \A w \in Spawned :
          RangeSize(w) = IF w = num_threads - 1
                         THEN (U64Max \div num_threads) + (U64Max % num_threads) + 1
                         ELSE U64Max \div num_threads
    /\ \A v, w \in Spawned : RangeSize(v) - RangeSize(w) <= num_threads

C17_Witness ==
    /\ AllSpawned
    /\ num_threads > 1
    /\ RangeSize(num_threads - 1) - RangeSize(0) > 1

\* the local count a task still has to flush
Unflushed(w) == IF pc[w] \in {"idle", "done", "panicked"} THEN 0
                ELSE local_hash_count[w]
UnflushedAll == [w \in Workers |-> Unflushed(w)]
MatchingAttempts == Cardinality({w \in Workers : Matched(w)})

\* C20: at the top of the scan loop a task's local counter is below the batch
\* size, it is flushed exactly when it reaches the batch size and is zero
\* after the flush, and the shared counter plus all unflushed local counters
\* equals the number of non-matching attempts completed so far.
C20_Original ==
    /\ \A w \in Workers :
          /\ pc[w] = "loop" => local_hash_count[w] \in 0 .. (BatchSize - 1)
          /\ pc[w] = "flush" => local_hash_count[w] = BatchSize
          /\ pc[w] = "recheck" => local_hash_count[w] = 0
    /\ hash_count + SumUpTo(UnflushedAll, MaxThreads - 1)
          = TotalAttempts - MatchingAttempts

\* C19 (as stated): once the flag is true the reporter prints at most one
\* further progress line, never begins a sleep, and it exits only after it
\* has read the flag as true.
C19_Original ==
    /\ lines_after_stop <= 1
    /\ sleeps_after_stop = 0
    /\ rep_pc = "done" => found

\* C19 (amended): once the flag is true the reporter begins at most one
\* further sleep (only when its last read of the flag, before the store,
\* returned false), prints at most one further progress line, begins no
\* sleep after that line, and exits only after it has read the flag as true.
C19_AtMostOneMoreLine ==
    /\ lines_after_stop <= 1
    /\ sleeps_after_stop <= 1
    /\ lines_after_stop = 1 => rep_pc \in {"loop", "done"}
    /\ sleeps_after_stop = 1 => rep_pc \in {"sample", "loop", "done"}
    /\ rep_pc = "done" => found

C19_Witness ==
    /\ lines_after_stop = 1
    /\ sleeps_after_stop = 1
    /\ rep_pc = "done"
    /\ CountLines(out, "progress") = 1

\* C18: when several workers find a match, each of them still returns
\* normally after its send (the send and the final flush can always be
\* taken, so the worker never blocks, and it never fails or computes
\* anything more), the coordinator's result is the first
\* one placed on the channel, it is never replaced, and the extra results
\* stay unread on the channel.
C18_RedundantSendHarmless ==
    /\ [](\A w \in Workers : SentBy(w) # {} => pc[w] \in {"final", "done"})
    /\ [](received # <<>> =>
             /\ received[1] = sent[1].msg
             /\ chan = [k \in 1 .. (Len(sent) - 1) |-> sent[k + 1].msg])
    /\ [][received # <<>> => received' = received]_vars
    /\ [](\A w \in Workers :
             /\ pc[w] = "send" => ENABLED WorkerSend(w)
             /\ pc[w] = "final" => ENABLED WorkerFinal(w))

C18_Witness ==
    /\ Len(sent) = 2
    /\ sent[1].msg # sent[2].msg
    /\ \A w \in Spawned : pc[w] = "done"
    /\ main_pc = "done"
    /\ Len(chan) = 1
====
